---- MODULE Spec2Model ----
(***************************************************************************)
(* Model of dnf/modules.py: the module registry (RepoModuleDict), the      *)
(* resolution of a module version, the enable / disable / install /        *)
(* upgrade operations and the transaction callback that commits the        *)
(* module configuration (ModuleTransactionProgress).                       *)
(*                                                                         *)
(* Python values are modelled as follows.  None is the empty string for a  *)
(* string-valued field and NoVersion for an integer-valued one; a missing  *)
(* ModuleConf (RepoModule.conf is None) is the record NoConf, whose field  *)
(* present is FALSE; a missing RepoModuleVersion is NoneMV.  An exception  *)
(* that leaves a method is the field raised of the world record the method *)
(* returns.                                                                *)
(***************************************************************************)
EXTENDS Integers, Sequences, FiniteSets, TLC

VARIABLES
    conf,                           \* RepoModule.conf, per module name
    disk,                           \* the <name>.module files written by write_conf_to_file
    installed_profiles,             \* RepoModule.installed_profiles, per module name
    installed_repo_module_version,  \* RepoModule.installed_repo_module_version
    repo_modules,                   \* ModuleTransactionProgress.repo_modules
    saved,                          \* ModuleTransactionProgress.saved
    found,                          \* the last lookup and the value it returned
    checkpoints,                    \* checkpoint signals (TRANS_POST, PKG_VERIFY) received
    commits,                        \* times the loop over repo_modules was started
    pluginpath,                     \* MainConf's option pluginpath: value and priority
    var                             \* the list a read of conf.pluginpath returned

vars == <<conf, disk, installed_profiles, installed_repo_module_version,
          repo_modules, saved, found, checkpoints, commits, pluginpath, var>>

---------------------------------------------------------------------------
(* Bounds of the model *)

\* longest list of pkg_specs handed to one install / upgrade call
MaxSpecs == 2
\* longest list of candidates tried for one pkg_spec beside the parsed ones
MaxCands == 2
\* install / upgrade are not called once the tracker holds this many entries
MaxTracked == 2
\* longest list given to the option pluginpath
MaxListLen == 2
\* checkpoint signals followed in one transaction
MaxCheckpoints == 2
\* largest version number asked for, or found in a configuration file
MaxVersion == 3

---------------------------------------------------------------------------
(* Python's None *)

None == ""
NoVersion == -1

NoneMV == [name |-> None, stream |-> None, version |-> NoVersion]
KeyErrorMV == [name |-> "KeyError", stream |-> None, version |-> NoVersion]

NoConf ==
    [present |-> FALSE, stream |-> None, version |-> NoVersion,
     enabled |-> FALSE, locked |-> FALSE, profiles |-> {}]

\* ModuleConf(section=self.name, parser=ConfigParser()): every option unset
NewModuleConf == [NoConf EXCEPT !.present = TRUE]

---------------------------------------------------------------------------
(* Configuration options with priorities (dnf.conf) *)

\* dnf.conf.config: the priorities of the sources of a value
PRIO_EMPTY == 0
PRIO_DEFAULT == 10
PRIO_MAINCONFIG == 20
PRIO_AUTOMATICCONFIG == 30
PRIO_REPOCONFIG == 40
PRIO_PLUGINDEFAULT == 50
PRIO_PLUGINCONFIG == 60
PRIO_COMMANDLINE == 70
PRIO_RUNTIME == 80

Priorities ==
    { PRIO_EMPTY, PRIO_DEFAULT, PRIO_MAINCONFIG, PRIO_AUTOMATICCONFIG,
      PRIO_REPOCONFIG, PRIO_PLUGINDEFAULT, PRIO_PLUGINCONFIG,
      PRIO_COMMANDLINE, PRIO_RUNTIME }

\* an option as MainConf() creates it: its default, at PRIO_DEFAULT
DefaultOption == [value |-> <<"plugins">>, priority |-> PRIO_DEFAULT]

\* _set_value keeping the stored value only against a strictly lower or an
\* equal priority
set_value_strict(opt, value, priority) ==
    IF priority <= opt.priority THEN opt
    ELSE [value |-> value, priority |-> priority]

\* conf._set_value(name, value, priority): a value of lower priority than
\* the stored one is dropped
set_value(opt, value, priority) ==
    IF priority < opt.priority THEN opt
    ELSE [value |-> value, priority |-> priority]

\* conf.<name> = value
setattr(opt, value) == set_value(opt, value, PRIO_RUNTIME)

\* no list was read from the option since it was set
NoVar == [bound |-> FALSE, value |-> <<>>, op |-> "none"]

\* var = conf.<name>: the list returned for a list option
read(opt) == [bound |-> TRUE, value |-> opt.value, op |-> "read"]

\* a returned list that is a copy: the option keeps its value
store_copy(opt, value) == opt

\* the option after the returned list was changed in place to value
store(opt, value) == [opt EXCEPT !.value = value]

\* the items of the lists, in the order sort() gives them
Items == <<"a", "b", "c">>

\* the in-place changes of a Python list
list_iadd(l, x) == l \o x
list_imul(l, n) == IF n <= 0 THEN <<>> ELSE [i \in 1..(n * Len(l)) |-> l[((i - 1) % Len(l)) + 1]]
list_setitem(l, i, x) == [l EXCEPT ![i + 1] = x]
list_append(l, x) == Append(l, x)
list_clear(l) == <<>>
list_extend(l, x) == l \o x
list_insert(l, i, x) ==
    LET k == IF i > Len(l) THEN Len(l) ELSE i
    IN  SubSeq(l, 1, k) \o <<x>> \o SubSeq(l, k + 1, Len(l))
list_pop(l) == SubSeq(l, 1, Len(l) - 1)
list_remove(l, x) ==
    LET k == CHOOSE i \in 1..Len(l) : l[i] = x /\ \A j \in 1..(i - 1) : l[j] # x
    IN  SubSeq(l, 1, k - 1) \o SubSeq(l, k + 1, Len(l))
list_reverse(l) == [i \in 1..Len(l) |-> l[Len(l) + 1 - i]]
list_sort(l) ==
    LET Only(x) == SelectSeq(l, LAMBDA y : y = x)
    IN  Only(Items[1]) \o Only(Items[2]) \o Only(Items[3])

---------------------------------------------------------------------------
(* The module metadata loaded into the registry (load_modules / add) *)

MV(n, s, v) == [name |-> n, stream |-> s, version |-> v]

\* every RepoModuleVersion added to the RepoModuleDict
Versions ==
    { MV("httpd", "2.4", 1), MV("httpd", "2.4", 2), MV("httpd", "2.2", 1),
      MV("foo", "1.0", 0), MV("foo", "1.0", 3), MV("foo", "2.0", 1) }

\* keys of RepoModuleDict
ModuleNames == { v.name : v \in Versions }

\* keys of RepoModule
Streams(n) == { v.stream : v \in { w \in Versions : w.name = n } }

\* values of RepoModuleStream
StreamVersions(n, s) == { v \in Versions : v.name = n /\ v.stream = s }

\* RepoModuleStream.latest: max() under RepoModuleVersion.__lt__
latest(n, s) ==
    CHOOSE v \in StreamVersions(n, s) :
        \A w \in StreamVersions(n, s) : ~(v.version < w.version)

\* RepoModuleStream.__getitem__: the version object, or KeyError
stream_getitem(n, s, version) ==
    IF \E v \in StreamVersions(n, s) : v.version = version
    THEN CHOOSE v \in StreamVersions(n, s) : v.version = version
    ELSE KeyErrorMV

\* the stream picked when neither the caller nor the configuration names one
DefaultStream(name) == IF name = "httpd" THEN "2.4" ELSE "f26"

---------------------------------------------------------------------------
(* RepoModuleDict.find_module_version *)

\* find_stream with the enabled flag of the configuration left unread
find_stream_any_conf(c, name, stream) ==
    LET s1 == IF stream = None /\ c[name].present
              THEN c[name].stream ELSE stream
    IN  IF s1 = None THEN DefaultStream(name) ELSE s1

\* the stream the lookup uses: argument, then enabled stream, then default
find_stream(c, name, stream) ==
    LET s1 == IF stream = None /\ c[name].present /\ c[name].enabled
              THEN c[name].stream ELSE stream
    IN  IF s1 = None THEN DefaultStream(name) ELSE s1

\* the try block taking the latest version when the locked one is missing
find_module_version_try_lock_fallback(c, name, stream, version) ==
    IF name \notin ModuleNames THEN KeyErrorMV
    ELSE LET s == find_stream(c, name, stream) IN
         IF s = None THEN NoneMV
         ELSE IF s \notin Streams(name) THEN KeyErrorMV
         ELSE IF c[name].present /\ c[name].locked /\ c[name].version # NoVersion
                 /\ stream_getitem(name, s, c[name].version) # KeyErrorMV
              THEN stream_getitem(name, s, c[name].version)
         ELSE IF version # NoVersion /\ version # 0
              THEN stream_getitem(name, s, version)
         ELSE latest(name, s)

\* the body of the try block; KeyErrorMV stands for a raised KeyError
find_module_version_try(c, name, stream, version) ==
    IF name \notin ModuleNames THEN KeyErrorMV
    ELSE LET s == find_stream(c, name, stream) IN
         IF s = None THEN NoneMV
         ELSE IF s \notin Streams(name) THEN KeyErrorMV
         ELSE IF c[name].present /\ c[name].locked /\ c[name].version # NoVersion
              THEN stream_getitem(name, s, c[name].version)
         ELSE IF version # NoVersion /\ version # 0
              THEN stream_getitem(name, s, version)
         ELSE latest(name, s)

\* find_module_version with the version argument read before the lock
find_module_version_version_first(c, name, stream, version) ==
    IF name \notin ModuleNames THEN NoneMV
    ELSE LET s == find_stream(c, name, stream)
             r == IF s \notin Streams(name) THEN KeyErrorMV
                  ELSE IF version # NoVersion /\ version # 0
                       THEN stream_getitem(name, s, version)
                  ELSE IF c[name].present /\ c[name].locked
                          /\ c[name].version # NoVersion
                       THEN stream_getitem(name, s, c[name].version)
                  ELSE latest(name, s)
         IN  IF r = KeyErrorMV THEN NoneMV ELSE r

\* find_module_version whose try block ends before the version lookup
find_module_version_short_try(c, name, stream, version) ==
    LET r == find_module_version_try(c, name, stream, version)
    IN  IF r = KeyErrorMV /\ name \in ModuleNames
           /\ find_stream(c, name, stream) \in Streams(name)
        THEN KeyErrorMV
        ELSE IF r = KeyErrorMV THEN NoneMV ELSE r

\* try: ... except KeyError: pass; return None
find_module_version(c, name, stream, version) ==
    LET r == find_module_version_try(c, name, stream, version)
    IN  IF r = KeyErrorMV THEN NoneMV ELSE r

---------------------------------------------------------------------------
(* Module metadata: profiles and artifacts (module_metadata) *)

\* RepoModuleVersion.profiles: the profile names of the metadata
profiles(mv) ==
    IF mv = MV("foo", "2.0", 1) THEN {"minimal"}
    ELSE IF mv = MV("foo", "1.0", 0) THEN {"web"}
    ELSE {"minimal", "web"}

\* RepoModuleVersion.rpms: the package names of a profile
rpms(mv, profile) ==
    IF profile = "web" THEN {"bar", "baz"} ELSE {"bar"}

\* module_metadata.artifacts.rpms, each "name-epoch:version-release" cut
\* into the pieces the epoch handling distinguishes (the arch suffix, which
\* the FORM_NEVRA parse drops, is left out)
artifacts(mv) ==
    IF mv.name = "foo"
    THEN { <<"bar", "-", "0", ":", "1.0-1">>,
           <<"baz", "-", "0", ":", "2.0-1">>,
           <<"qux", "-", "0", ":", "1.0-1">> }
    ELSE { <<"bar", "-", "1", "0", ":", "1.0-1">>,
           <<"baz", "-", "2", ":", "2.0-1">>,
           <<"qux", "-", "0", ":", "1.0-1">> }

\* str.replace("0:", ""): drop every "0" that is followed by ":"
RECURSIVE replace_epoch(_)
replace_epoch(t) ==
    IF Len(t) < 2 THEN t
    ELSE IF t[1] = "0" /\ t[2] = ":" THEN replace_epoch(SubSeq(t, 3, Len(t)))
    ELSE <<t[1]>> \o replace_epoch(Tail(t))

\* RepoModuleVersion.nevra
nevra(mv) == { replace_epoch(a) : a \in artifacts(mv) }

RECURSIVE concat(_)
concat(t) == IF t = <<>> THEN "" ELSE t[1] \o concat(Tail(t))

\* RepoModuleVersion.profile_nevra: "{name}-{evr}" of the artifacts the
\* profile names
profile_nevra(mv, profile) ==
    { concat(n) : n \in { a \in nevra(mv) : a[1] \in rpms(mv, profile) } }

\* every identifier profile_nevra can produce
AllNevra ==
    UNION { profile_nevra(mv, p) : mv \in Versions, p \in {"minimal", "web"} }

---------------------------------------------------------------------------
(* NSVAP and ModuleSubject *)

\* NSVAP.__init__: version is not None and int(version) or None
NSVAP(name, stream, version, profile) ==
    [name |-> name, stream |-> stream,
     version |-> IF version # NoVersion /\ version # 0 THEN version ELSE NoVersion,
     profile |-> profile]

NoneNSVAP == [name |-> None, stream |-> None, version |-> NoVersion, profile |-> None]

\* A pkg_spec "name[-stream[-version]][/profile]", kept as its parts.
PkgSpec(name, stream, version, profile) ==
    [name |-> name, stream |-> stream, version |-> version, profile |-> profile]

\* ModuleSubject.get_nsvap_possibilities.  The candidates are those of
\* hawkey's forms NAME, NEVR and NEV, in hawkey's order: the whole string as
\* a name; name, stream (version) and version (release); name-stream as the
\* name with the version as stream.
get_nsvap_possibilities(spec) ==
    IF spec.stream = None
    THEN << NSVAP(spec.name, None, NoVersion, spec.profile) >>
    ELSE IF spec.version = NoVersion
    THEN << NSVAP(spec.name \o "-" \o spec.stream, None, NoVersion, spec.profile),
            NSVAP(spec.name, spec.stream, NoVersion, spec.profile) >>
    ELSE << NSVAP(spec.name \o "-" \o spec.stream \o "-" \o ToString(spec.version),
                  None, NoVersion, spec.profile),
            NSVAP(spec.name, spec.stream, spec.version, spec.profile),
            NSVAP(spec.name \o "-" \o spec.stream, ToString(spec.version),
                  NoVersion, spec.profile) >>

\* the loop without its break: the last candidate that resolves
RECURSIVE last_resolving(_, _, _)
last_resolving(c, cands, i) ==
    IF i > Len(cands)
    THEN [mv |-> NoneMV, nsvap |-> NoneNSVAP, tried |-> Len(cands)]
    ELSE LET mv == find_module_version(c, cands[i].name, cands[i].stream,
                                       cands[i].version)
             later == last_resolving(c, cands, i + 1)
         IN  IF later.mv # NoneMV \/ mv = NoneMV THEN later
             ELSE [mv |-> mv, nsvap |-> cands[i], tried |-> Len(cands)]

\* ModuleSubject.find_module_version: the first candidate that resolves;
\* tried counts the candidates looked up
RECURSIVE first_resolving(_, _, _)
first_resolving(c, cands, i) ==
    IF i > Len(cands)
    THEN [mv |-> NoneMV, nsvap |-> NoneNSVAP, tried |-> Len(cands)]
    ELSE LET mv == find_module_version(c, cands[i].name, cands[i].stream,
                                       cands[i].version)
         IN  IF mv # NoneMV THEN [mv |-> mv, nsvap |-> cands[i], tried |-> i]
             ELSE first_resolving(c, cands, i + 1)

ModuleSubject_find_module_version(c, spec) ==
    first_resolving(c, get_nsvap_possibilities(spec), 1)

---------------------------------------------------------------------------
(* The world a method works on, and what it leaves behind *)

\* calls is the trace of the collaborator calls of the running operation:
\* logger, userconfirm, write_conf_to_file, base.install, base.upgrade and
\* the registrations with the transaction callback.  raised names the
\* exception that left the operation, None if it returned.
World ==
    [conf |-> conf, disk |-> disk, installed_profiles |-> installed_profiles,
     installed_repo_module_version |-> installed_repo_module_version,
     repo_modules |-> repo_modules, saved |-> saved,
     calls |-> <<>>, raised |-> None]

Ev(kind, arg) == [ev |-> kind, arg |-> arg]

Call(W, kind, arg) == [W EXCEPT !.calls = Append(@, Ev(kind, arg))]

Raise(W, exc) == [W EXCEPT !.raised = exc]

Range(f) == { f[i] : i \in DOMAIN f }

RECURSIVE SetToSeq(_)
SetToSeq(S) ==
    IF S = {} THEN <<>>
    ELSE LET x == CHOOSE y \in S : TRUE IN <<x>> \o SetToSeq(S \ {x})

---------------------------------------------------------------------------
(* RepoModule *)

\* RepoModule.write_conf_to_file
write_conf_to_file(W, m) ==
    Call([W EXCEPT !.disk[m] = W.conf[m]], "write", m)

\* RepoModule.enable writing a fresh configuration for the stream
RepoModule_enable_fresh(W, m, stream, assumeyes, assumeno, confirm) ==
    IF stream \notin Streams(m) THEN Raise(W, "Error")
    ELSE write_conf_to_file(
             [W EXCEPT !.conf[m] = [NewModuleConf EXCEPT !.stream = stream,
                                                         !.enabled = TRUE]], m)

\* RepoModule.enable asking whenever a stream is recorded, the same one or not
RepoModule_enable_always_asks(W, m, stream, assumeyes, assumeno, confirm) ==
    IF stream \notin Streams(m) THEN Raise(W, "Error")
    ELSE
    LET W1 == IF W.conf[m].present THEN W
              ELSE [W EXCEPT !.conf[m] = NewModuleConf]
        W2 == IF W1.conf[m].stream # None /\ ~assumeyes
              THEN LET Wl == Call(W1, "log", "DIFFERENT_STREAM_INFO") IN
                   IF assumeno THEN Call(Wl, "log", "STREAM_NOT_ENABLED_ERR")
                   ELSE LET Wc == Call(Wl, "userconfirm", m) IN
                        IF confirm THEN Wc
                        ELSE Call(Wc, "log", "STREAM_NOT_ENABLED_ERR")
              ELSE W1
    IN  write_conf_to_file(
            [W2 EXCEPT !.conf[m].stream = stream, !.conf[m].enabled = TRUE], m)

\* RepoModule.enable: confirm is the answer userconfirm() would give
RECURSIVE RepoModule_enable(_, _, _, _, _, _)
RepoModule_enable(W, m, stream, assumeyes, assumeno, confirm) ==
    IF stream \notin Streams(m) THEN Raise(W, "Error")
    ELSE
    LET W1 == IF W.conf[m].present THEN W
              ELSE [W EXCEPT !.conf[m] = NewModuleConf]
        W2 == IF W1.conf[m].stream # None /\ W1.conf[m].stream # stream /\ ~assumeyes
              THEN LET Wl == Call(W1, "log", "DIFFERENT_STREAM_INFO") IN
                   IF assumeno THEN Call(Wl, "log", "STREAM_NOT_ENABLED_ERR")
                   ELSE LET Wc == Call(Wl, "userconfirm", m) IN
                        IF confirm
                        THEN RepoModule_enable(Wc, m, stream, TRUE, assumeno, confirm)
                        ELSE Call(Wc, "log", "STREAM_NOT_ENABLED_ERR")
              ELSE W1
    IN  write_conf_to_file(
            [W2 EXCEPT !.conf[m].stream = stream, !.conf[m].enabled = TRUE], m)

\* RepoModule.disable writing a fresh configuration each time
RepoModule_disable_fresh(W, m) ==
    write_conf_to_file(
        [W EXCEPT !.conf[m] = [NewModuleConf EXCEPT !.enabled = FALSE]], m)

\* RepoModule.disable
RepoModule_disable(W, m) ==
    LET W1 == IF W.conf[m].present THEN W
              ELSE [W EXCEPT !.conf[m] = NewModuleConf]
    IN  write_conf_to_file([W1 EXCEPT !.conf[m].enabled = FALSE], m)

---------------------------------------------------------------------------
(* RepoModuleVersion *)

\* the loop over profile_nevra: base.install / base.upgrade of each
\* identifier; the delegate raises on the identifiers in bad
RECURSIVE delegate(_, _, _, _)
delegate(W, kind, pkgs, bad) ==
    IF pkgs = <<>> THEN W
    ELSE LET W1 == Call(W, kind, Head(pkgs)) IN
         IF Head(pkgs) \in bad THEN Raise(W1, "DelegateError")
         ELSE delegate(W1, kind, Tail(pkgs), bad)

\* RepoModuleVersion.install
RepoModuleVersion_install(W, mv, profile, bad) ==
    IF profile \notin profiles(mv) THEN Raise(Call(W, "raise", "NO_PROFILE_ERR"), "Error")
    ELSE
    LET m  == mv.name
        W1 == [W EXCEPT !.installed_repo_module_version[m] = mv,
                        !.installed_profiles[m] = Append(@, profile)]
        W2 == delegate(W1, "install", SetToSeq(profile_nevra(mv, profile)), bad)
    IN  IF W2.raised # None THEN W2
        ELSE Call([W2 EXCEPT !.repo_modules = Append(@, m)], "register", m)

\* the loop over the profiles in RepoModuleVersion.upgrade
RECURSIVE upgrade_profiles(_, _, _, _)
upgrade_profiles(W, mv, profs, bad) ==
    IF profs = <<>> THEN W
    ELSE IF Head(profs) \notin profiles(mv)
         THEN Raise(Call(W, "raise", "NO_PROFILE_ERR"), "Error")
    ELSE LET W1 == delegate(W, "upgrade",
                            SetToSeq(profile_nevra(mv, Head(profs))), bad)
         IN  IF W1.raised # None THEN W1
             ELSE upgrade_profiles(W1, mv, Tail(profs), bad)

\* RepoModuleVersion.upgrade
RepoModuleVersion_upgrade(W, mv, profs, bad) ==
    LET m  == mv.name
        W1 == [W EXCEPT !.installed_repo_module_version[m] = mv]
        W2 == upgrade_profiles(W1, mv, profs, bad)
    IN  IF W2.raised # None THEN W2
        ELSE Call([W2 EXCEPT !.repo_modules = Append(@, m)], "register", m)

---------------------------------------------------------------------------
(* RepoModuleDict *)

\* RepoModuleDict.enable
RepoModuleDict_enable(W, pkg_spec, assumeyes, assumeno, confirm) ==
    LET r == ModuleSubject_find_module_version(W.conf, pkg_spec) IN
    IF r.mv = NoneMV THEN Call(W, "log", "NO_MODULE_ERR")
    ELSE RepoModule_enable(W, r.mv.name, r.mv.stream, assumeyes, assumeno, confirm)

\* RepoModuleDict.disable: by pkg_spec, else by the pkg_spec as module name
RepoModuleDict_disable(W, pkg_spec) ==
    LET r == ModuleSubject_find_module_version(W.conf, pkg_spec) IN
    IF r.mv # NoneMV THEN RepoModule_disable(W, r.mv.name)
    ELSE IF pkg_spec.stream = None /\ pkg_spec.profile = None
            /\ pkg_spec.name \in ModuleNames
         THEN RepoModule_disable(W, pkg_spec.name)
    ELSE Call(W, "log", "NO_MODULE_ERR")

\* one round of the loop of RepoModuleDict.install
install_spec(W, pkg_spec, autoenable, bad) ==
    LET r == ModuleSubject_find_module_version(W.conf, pkg_spec) IN
    IF r.mv = NoneMV THEN Call(W, "log", "NO_MODULE_ERR")
    ELSE LET W1 == IF autoenable
                   THEN RepoModuleDict_enable(
                            W, PkgSpec(r.nsvap.name, None, NoVersion, None),
                            TRUE, FALSE, FALSE)
                   ELSE W
         IN  IF W1.raised # None THEN W1
             ELSE RepoModuleVersion_install(W1, r.mv, r.nsvap.profile, bad)

\* RepoModuleDict.install
RECURSIVE RepoModuleDict_install(_, _, _, _)
RepoModuleDict_install(W, pkg_specs, autoenable, bad) ==
    IF pkg_specs = <<>> \/ W.raised # None THEN W
    ELSE RepoModuleDict_install(install_spec(W, Head(pkg_specs), autoenable, bad),
                                Tail(pkg_specs), autoenable, bad)

\* conf.profiles, a list in the order progress wrote it: sorted(set(profiles))
ProfileOrder == <<"minimal", "web">>
sorted(S) == SelectSeq(ProfileOrder, LAMBDA p : p \in S)

\* one round of the loop of RepoModuleDict.upgrade
upgrade_spec(W, pkg_spec, bad) ==
    LET r == ModuleSubject_find_module_version(W.conf, pkg_spec) IN
    IF r.mv = NoneMV THEN Call(W, "log", "NO_MODULE_ERR")
    ELSE LET c == W.conf[r.nsvap.name]
             installed == IF c.present THEN c.profiles ELSE {}
         IN  IF r.nsvap.profile # None
             THEN IF r.nsvap.profile \notin installed
                  THEN Call(W, "log", "PROFILE_NOT_INSTALLED")
                  ELSE RepoModuleVersion_upgrade(W, r.mv, <<r.nsvap.profile>>, bad)
             ELSE RepoModuleVersion_upgrade(W, r.mv, sorted(installed), bad)

\* RepoModuleDict.upgrade
RECURSIVE RepoModuleDict_upgrade(_, _, _)
RepoModuleDict_upgrade(W, pkg_specs, bad) ==
    IF pkg_specs = <<>> \/ W.raised # None THEN W
    ELSE RepoModuleDict_upgrade(upgrade_spec(W, Head(pkg_specs), bad),
                                Tail(pkg_specs), bad)

\* the module names in sorted order (list.sort of the names)
SortedNames == <<"foo", "httpd">>

\* upgrade_all without the test of conf.enabled
RepoModuleDict_upgrade_all_any_conf(W, bad) ==
    LET HasConf(n) == W.conf[n].present
        modules == SelectSeq(SortedNames, HasConf)
    IN  RepoModuleDict_upgrade(
            W, [i \in 1..Len(modules) |-> PkgSpec(modules[i], None, NoVersion, None)],
            bad)

\* RepoModuleDict.upgrade_all
RepoModuleDict_upgrade_all(W, bad) ==
    LET IsEnabled(n) == W.conf[n].present /\ W.conf[n].enabled
        modules == SelectSeq(SortedNames, IsEnabled)
    IN  RepoModuleDict_upgrade(
            W, [i \in 1..Len(modules) |-> PkgSpec(modules[i], None, NoVersion, None)],
            bad)

---------------------------------------------------------------------------
(* ModuleTransactionProgress *)

\* dnf.callback actions: the two checkpoints and one that is none
TRANS_POST == "TRANS_POST"
PKG_VERIFY == "PKG_VERIFY"
PKG_INSTALL == "PKG_INSTALL"
ProgressActions == {TRANS_POST, PKG_VERIFY, PKG_INSTALL}

\* the round writing the newly installed profiles alone
commit_module_replacing(W, m) ==
    IF ~W.conf[m].present THEN Raise(W, "AttributeError")
    ELSE
    write_conf_to_file(
        [W EXCEPT !.conf[m].enabled = TRUE,
                  !.conf[m].version = W.installed_repo_module_version[m].version,
                  !.conf[m].profiles = Range(W.installed_profiles[m])], m)

\* one round of the loop of progress; conf.enabled on a missing conf is an
\* AttributeError
commit_module(W, m) ==
    IF ~W.conf[m].present THEN Raise(W, "AttributeError")
    ELSE
    LET profs == W.installed_profiles[m] \o SetToSeq(W.conf[m].profiles)
    IN  write_conf_to_file(
            [W EXCEPT !.conf[m].enabled = TRUE,
                      !.conf[m].version = W.installed_repo_module_version[m].version,
                      !.installed_profiles[m] = profs,
                      !.conf[m].profiles = Range(profs)], m)

RECURSIVE commit_loop(_, _)
commit_loop(W, ms) ==
    IF ms = <<>> \/ W.raised # None THEN W
    ELSE commit_loop(commit_module(W, Head(ms)), Tail(ms))

\* progress without the one-shot flag in its condition
progress_unguarded(W, action) ==
    IF action = TRANS_POST \/ action = PKG_VERIFY
    THEN commit_loop(Call([W EXCEPT !.saved = TRUE], "commit", action),
                     W.repo_modules)
    ELSE W

\* ModuleTransactionProgress.progress
progress(W, action) ==
    IF ~W.saved /\ (action = TRANS_POST \/ action = PKG_VERIFY)
    THEN commit_loop(Call([W EXCEPT !.saved = TRUE], "commit", action),
                     W.repo_modules)
    ELSE W

---------------------------------------------------------------------------
(* Inputs *)

\* pkg_specs given to enable and disable
EnableSpecs ==
    { PkgSpec("foo", None, NoVersion, None),
      PkgSpec("foo", "1.0", NoVersion, None),
      PkgSpec("foo", "2.0", NoVersion, None),
      PkgSpec("httpd", None, NoVersion, None),
      PkgSpec("nope", None, NoVersion, None) }

\* pkg_specs given to install and upgrade
InstallSpecs ==
    { PkgSpec("foo", None, NoVersion, "web"),
      PkgSpec("foo", "2.0", NoVersion, "minimal"),
      PkgSpec("foo", "2.0", NoVersion, "web"),
      PkgSpec("foo", None, NoVersion, None),
      PkgSpec("httpd", None, NoVersion, "minimal"),
      PkgSpec("nope", None, NoVersion, "web") }

RECURSIVE SeqsUpTo(_, _)
SeqsUpTo(S, n) ==
    IF n = 0 THEN {<<>>}
    ELSE LET shorter == SeqsUpTo(S, n - 1)
         IN  shorter \cup { Append(q, x) : q \in shorter, x \in S }

SpecLists == SeqsUpTo(InstallSpecs, MaxSpecs) \ {<<>>}

\* the identifiers the install / upgrade delegate may refuse
IdsNamed(name) ==
    { id \in AllNevra : \E n \in UNION { nevra(mv) : mv \in Versions } :
                            n[1] = name /\ concat(n) = id }

BadSets == { {}, IdsNamed("baz"), IdsNamed("bar") }

\* the module configurations read_all_modules may find in the modules dir
Conf(stream, version, enabled, locked, profs) ==
    [present |-> TRUE, stream |-> stream, version |-> version,
     enabled |-> enabled, locked |-> locked, profiles |-> profs]

InitConfs ==
    [ foo   |-> { NoConf,
                  Conf("1.0", 3, TRUE, FALSE, {"web"}),
                  Conf("1.0", 0, TRUE, TRUE, {"minimal", "web"}) },
      httpd |-> { NoConf,
                  Conf("2.2", 1, TRUE, FALSE, {"minimal"}) } ]

---------------------------------------------------------------------------
(* The state machine *)

\* no lookup was made yet
NoFound ==
    [op |-> None, name |-> None, stream |-> None, version |-> NoVersion,
     profile |-> None, mv |-> NoneMV, nsvap |-> NoneNSVAP]

Init ==
    /\ conf \in [ModuleNames -> UNION { InitConfs[m] : m \in ModuleNames }]
    /\ \A m \in ModuleNames : conf[m] \in InitConfs[m]
    /\ disk = conf
    /\ installed_profiles = [m \in ModuleNames |-> <<>>]
    /\ installed_repo_module_version = [m \in ModuleNames |-> NoneMV]
    /\ repo_modules = <<>>
    /\ saved = FALSE
    /\ found = NoFound
    /\ checkpoints = 0
    /\ commits = 0
    /\ pluginpath = DefaultOption
    /\ var = NoVar

\* the state the operation leaves
Becomes(W) ==
    /\ conf' = W.conf
    /\ disk' = W.disk
    /\ installed_profiles' = W.installed_profiles
    /\ installed_repo_module_version' = W.installed_repo_module_version
    /\ repo_modules' = W.repo_modules
    /\ saved' = W.saved
    /\ commits' = commits + Len(SelectSeq(W.calls, LAMBDA e : e.ev = "commit"))
    /\ pluginpath' = pluginpath
    /\ var' = var

\* The commands run before the transaction does: once the callback has
\* committed, the run only receives further progress signals.
Idle == ~saved

\* userconfirm() answers only when it is asked: neither assumeyes nor assumeno
Enable ==
    \E pkg_spec \in EnableSpecs, assumeyes, assumeno \in BOOLEAN :
        \E confirm \in IF assumeyes \/ assumeno THEN {FALSE} ELSE BOOLEAN :
            /\ Idle
            /\ Becomes(RepoModuleDict_enable(World, pkg_spec, assumeyes,
                                             assumeno, confirm))
            /\ UNCHANGED <<found, checkpoints>>

Disable ==
    \E pkg_spec \in EnableSpecs :
        /\ Idle
        /\ Becomes(RepoModuleDict_disable(World, pkg_spec))
        /\ UNCHANGED <<found, checkpoints>>

\* the tracker and the installed_profiles lists stay within MaxTracked entries
Room(n) ==
    /\ Len(repo_modules) + n <= MaxTracked
    /\ \A m \in ModuleNames : Len(installed_profiles[m]) + n <= MaxTracked

Install ==
    \E pkg_specs \in SpecLists, autoenable \in BOOLEAN, bad \in BadSets :
        /\ Idle
        /\ Room(Len(pkg_specs))
        /\ Becomes(RepoModuleDict_install(World, pkg_specs, autoenable, bad))
        /\ UNCHANGED <<found, checkpoints>>

Upgrade ==
    \E pkg_specs \in SpecLists, bad \in BadSets :
        /\ Idle
        /\ Room(Len(pkg_specs))
        /\ Becomes(RepoModuleDict_upgrade(World, pkg_specs, bad))
        /\ UNCHANGED <<found, checkpoints>>

UpgradeAll ==
    \E bad \in BadSets :
        /\ Idle
        /\ Room(Cardinality(ModuleNames))
        /\ Becomes(RepoModuleDict_upgrade_all(World, bad))
        /\ UNCHANGED <<found, checkpoints>>

IsCheckpoint(action) == action = TRANS_POST \/ action = PKG_VERIFY

Progress ==
    \E action \in ProgressActions :
        /\ IsCheckpoint(action) => checkpoints < MaxCheckpoints
        /\ Becomes(progress(World, action))
        /\ checkpoints' = IF IsCheckpoint(action) THEN checkpoints + 1
                          ELSE checkpoints
        /\ UNCHANGED found

Next == Enable \/ Disable \/ Install \/ Upgrade \/ UpgradeAll \/ Progress

Spec == Init /\ [][Next]_vars

---------------------------------------------------------------------------
(* Resolution alone: lookups against every configuration a module may have *)

QueryNames == ModuleNames \cup {"nope"}
QueryStreams == UNION { Streams(n) : n \in ModuleNames } \cup {None, "9.9"}
QueryVersions == {NoVersion} \cup 0..MaxVersion

\* every configuration read_all_modules may find for one module
ResolveConfs ==
    {NoConf} \cup
    { Conf(s, v, e, l, {}) : s \in QueryStreams, v \in QueryVersions,
                             e \in BOOLEAN, l \in BOOLEAN }

InitResolve ==
    /\ \E m \in ModuleNames, c \in ResolveConfs :
           conf = [n \in ModuleNames |-> IF n = m THEN c ELSE NoConf]
    /\ disk = conf
    /\ installed_profiles = [m \in ModuleNames |-> <<>>]
    /\ installed_repo_module_version = [m \in ModuleNames |-> NoneMV]
    /\ repo_modules = <<>>
    /\ saved = FALSE
    /\ found = NoFound
    /\ checkpoints = 0
    /\ commits = 0
    /\ pluginpath = DefaultOption
    /\ var = NoVar

\* a call of RepoModuleDict.find_module_version
FindVersion ==
    \E name \in QueryNames, stream \in QueryStreams, version \in QueryVersions :
        /\ found' = [op |-> "find_module_version", name |-> name,
                     stream |-> stream, version |-> version, profile |-> None,
                     mv |-> find_module_version(conf, name, stream, version),
                     nsvap |-> NoneNSVAP]
        /\ UNCHANGED <<conf, disk, installed_profiles,
                       installed_repo_module_version, repo_modules, saved,
                       checkpoints, commits, pluginpath, var>>

\* a call of ModuleSubject.find_module_version
FindByIdentifier ==
    \E spec \in EnableSpecs \cup InstallSpecs :
        LET r == ModuleSubject_find_module_version(conf, spec) IN
        /\ found' = [op |-> "find_by_identifier", name |-> spec.name,
                     stream |-> spec.stream, version |-> spec.version,
                     profile |-> spec.profile, mv |-> r.mv, nsvap |-> r.nsvap]
        /\ UNCHANGED <<conf, disk, installed_profiles,
                       installed_repo_module_version, repo_modules, saved,
                       checkpoints, commits, pluginpath, var>>

NextResolve == FindVersion \/ FindByIdentifier

SpecResolve == InitResolve /\ [][NextResolve]_vars

---------------------------------------------------------------------------
(* Properties *)

\* the module is pinned: locked, with a locked version
Locked(c) == c.present /\ c.locked /\ c.version # NoVersion

\* the precedence of streams as the specification words it
SelectedStream(name, stream) ==
    IF stream # None THEN stream
    ELSE IF conf[name].present /\ conf[name].enabled /\ conf[name].stream # None
         THEN conf[name].stream
    ELSE DefaultStream(name)

\* the write_conf_to_file calls of an operation, in order
WritesOf(W) ==
    LET w == SelectSeq(W.calls, LAMBDA e : e.ev = "write")
    IN  [i \in 1..Len(w) |-> w[i].arg]

\* C1: enabling a stream other than the recorded one without assumeyes, with
\* assumeno set or the confirmation answered no, leaves the persisted stream
\* as it was.
CE_C1_DeclinedEnableKeepsStream ==
    \A pkg_spec \in EnableSpecs, assumeno, confirm \in BOOLEAN :
        LET r == ModuleSubject_find_module_version(conf, pkg_spec)
            m == r.mv.name
            W == RepoModuleDict_enable(World, pkg_spec, FALSE, assumeno, confirm)
        IN  (/\ Idle
             /\ r.mv # NoneMV
             /\ conf[m].present
             /\ conf[m].stream # None
             /\ conf[m].stream # r.mv.stream
             /\ (assumeno \/ ~confirm))
            => W.disk[m].stream = disk[m].stream

\* C2: over any sequence of progress signals the commit runs exactly once, at
\* the first TRANS_POST or PKG_VERIFY signal; a later checkpoint signal writes
\* nothing, and a signal with another action neither commits nor consumes the
\* one-shot flag.
Thm_C2_CommitOnce ==
    /\ commits = (IF checkpoints = 0 THEN 0 ELSE 1)
    /\ saved = (checkpoints > 0)
    /\ \A action \in ProgressActions :
           LET W == progress(World, action) IN
           /\ (saved \/ ~IsCheckpoint(action)) => W = World
           /\ (~saved /\ IsCheckpoint(action)) =>
                  /\ W.saved
                  /\ Len(SelectSeq(W.calls, LAMBDA e : e.ev = "commit")) = 1
                  /\ W.raised = None => WritesOf(W) = repo_modules

\* C2 witness: a second checkpoint signal arrived after a commit that wrote
\* the configuration of a tracked module.
Witness_C2 ==
    /\ checkpoints = 2
    /\ commits = 1
    /\ repo_modules # <<>>
    /\ \E m \in Range(repo_modules) :
           /\ disk[m].present
           /\ disk[m].version = installed_repo_module_version[m].version

\* C3: install and upgrade, with autoenable or without, write no
\* configuration file before the commit: the persisted configuration is what
\* it was before the call.
CE_C3_NoWriteBeforeCommit ==
    \A pkg_spec \in InstallSpecs, autoenable \in BOOLEAN :
        LET Wi == RepoModuleDict_install(World, <<pkg_spec>>, autoenable, {})
            Wu == RepoModuleDict_upgrade(World, <<pkg_spec>>, {})
        IN  Idle => /\ Wi.disk = disk /\ WritesOf(Wi) = <<>>
                    /\ Wu.disk = disk /\ WritesOf(Wu) = <<>>

\* C4: for a module locked with version V, find_module_version returns the
\* version-V object of the stream it looks in, whatever version is asked for.
Thm_C4_LockPrecedence ==
    (found.op = "find_module_version" /\ found.name \in ModuleNames
        /\ Locked(conf[found.name]))
    => LET n == found.name
           V == conf[n].version
           s == SelectedStream(n, found.stream)
       IN  /\ \A W \in QueryVersions :
                  find_module_version(conf, n, found.stream, W) = found.mv
           /\ MV(n, s, V) \in Versions => found.mv = MV(n, s, V)
           /\ found.mv # NoneMV => found.mv = MV(n, s, V)

\* C4 witness: a locked module asked for another version that its stream holds.
Witness_C4 ==
    /\ found.op = "find_module_version"
    /\ found.name \in ModuleNames
    /\ Locked(conf[found.name])
    /\ found.version # NoVersion
    /\ found.version # conf[found.name].version
    /\ MV(found.name, found.stream, found.version) \in Versions
    /\ found.mv = MV(found.name, found.stream, conf[found.name].version)
    /\ found.mv \in Versions

\* C5: for a module that is not locked, a (name, stream, version) the
\* registry holds resolves to exactly that ModuleVersion, version 0 included.
CE_C5_ExactVersion ==
    (found.op = "find_module_version" /\ found.name \in ModuleNames
        /\ ~conf[found.name].locked
        /\ found.version # NoVersion
        /\ MV(found.name, found.stream, found.version) \in Versions)
    => found.mv = MV(found.name, found.stream, found.version)

\* the value of a lookup: never an escaped KeyError, and None for an unknown
\* name, a stream that does not exist and a version the stream lacks
C6_NotFoundIsNone ==
    found.op = "find_module_version"
    => /\ found.mv # KeyErrorMV
       /\ found.name \notin ModuleNames => found.mv = NoneMV
       /\ found.name \in ModuleNames =>
              LET s == SelectedStream(found.name, found.stream) IN
              /\ s \notin Streams(found.name) => found.mv = NoneMV
              /\ (/\ ~Locked(conf[found.name])
                  /\ found.version # NoVersion /\ found.version # 0
                  /\ MV(found.name, s, found.version) \notin Versions)
                 => found.mv = NoneMV
              /\ (/\ Locked(conf[found.name])
                  /\ MV(found.name, s, conf[found.name].version) \notin Versions)
                 => found.mv = NoneMV

Thm_C7_StreamPrecedence ==
    (found.op = "find_module_version" /\ found.name \in ModuleNames
        /\ ~Locked(conf[found.name]))
    => LET n == found.name
           s == SelectedStream(n, found.stream)
       IN  /\ found.mv # NoneMV => found.mv.name = n /\ found.mv.stream = s
           /\ (found.version = NoVersion /\ s \in Streams(n)) =>
                  /\ found.mv \in StreamVersions(n, s)
                  /\ \A w \in StreamVersions(n, s) : w.version <= found.mv.version

\* C7 witness: httpd without configuration, asked for without stream and
\* version, resolves to version 2 of its default stream 2.4.
Witness_C7 ==
    /\ found.op = "find_module_version"
    /\ found.name = "httpd"
    /\ found.stream = None
    /\ found.version = NoVersion
    /\ ~conf["httpd"].present
    /\ found.mv = MV("httpd", "2.4", 2)

\* C8: install with autoenable enables the stream of the ModuleVersion the
\* spec resolved to, before any install call of the delegate, and after the
\* commit the module is enabled on that stream.
CE_C8_AutoenableResolvedStream ==
    \A pkg_spec \in InstallSpecs :
        LET r  == ModuleSubject_find_module_version(conf, pkg_spec)
            m  == r.mv.name
            W  == RepoModuleDict_install(World, <<pkg_spec>>, TRUE, {})
            Wc == progress(W, TRANS_POST)
            firstOf(kind) ==
                CHOOSE i \in 1..Len(W.calls) + 1 :
                    /\ i <= Len(W.calls) => W.calls[i].ev = kind
                    /\ \A j \in 1..(i - 1) : W.calls[j].ev # kind
        IN  (Idle /\ r.mv # NoneMV /\ W.raised = None)
            => /\ W.disk[m].enabled /\ W.disk[m].stream = r.mv.stream
               /\ firstOf("write") < firstOf("install")
               /\ Wc.disk[m].enabled /\ Wc.disk[m].stream = r.mv.stream

\* C9: the commit leaves every tracked module enabled, with the version of
\* the ModuleVersion last installed or upgraded, and with the profiles it had
\* together with those installed in the transaction.
CE_C9_CommitResult ==
    (Idle /\ repo_modules # <<>>)
    => LET W == progress(World, TRANS_POST) IN
       \A m \in Range(repo_modules) :
           /\ W.disk[m].present
           /\ W.disk[m].enabled
           /\ W.disk[m].version = installed_repo_module_version[m].version
           /\ W.disk[m].profiles =
                  disk[m].profiles \cup Range(installed_profiles[m])

\* C10: after a commit every tracked module is persisted, also one that had
\* no configuration when it was registered.
CE_C10_NoPartialCommit ==
    commits > 0
    => \A m \in Range(repo_modules) :
           /\ disk[m].present
           /\ disk[m].enabled
           /\ disk[m].version = installed_repo_module_version[m].version


---------------------------------------------------------------------------
(* Batches: install and upgrade of several pkg_specs *)

\* the base.install / base.upgrade calls and the registrations of an
\* operation, in order
EffectsOf(W) ==
    SelectSeq(W.calls, LAMBDA e : e.ev \in {"install", "upgrade", "register"})

\* the list without its i-th element
Without(q, i) == SubSeq(q, 1, i - 1) \o SubSeq(q, i + 1, Len(q))

\* the pkg_spec names no module version, or names a profile the resolved
\* version does not have
NotFoundSpec(c, pkg_spec) ==
    LET r == ModuleSubject_find_module_version(c, pkg_spec)
    IN  \/ r.mv = NoneMV
        \/ r.nsvap.profile # None /\ r.nsvap.profile \notin profiles(r.mv)

\* C11: a pkg_spec of an install or upgrade batch that is not found (module,
\* stream, version, or profile missing on the resolved version) is skipped
\* without an exception, and the base.install / base.upgrade calls and the
\* registrations of the batch are those of the batch without that pkg_spec.
CE_C11_NotFoundSkipped ==
    \A pkg_specs \in SpecLists :
        \A i \in 1..Len(pkg_specs) :
            LET autoenable == FALSE
                before == SubSeq(pkg_specs, 1, i - 1)
                rest   == Without(pkg_specs, i)
                Ia     == RepoModuleDict_install(World, before, autoenable, {})
                Ua     == RepoModuleDict_upgrade(World, before, {})
            IN  /\ (Ia.raised = None /\ NotFoundSpec(Ia.conf, pkg_specs[i])) =>
                      LET W == install_spec(Ia, pkg_specs[i], autoenable, {})
                      IN  /\ W.raised = None
                          /\ EffectsOf(RepoModuleDict_install(World, pkg_specs,
                                                              autoenable, {}))
                               = EffectsOf(RepoModuleDict_install(World, rest,
                                                                  autoenable, {}))
                /\ (Ua.raised = None /\ NotFoundSpec(Ua.conf, pkg_specs[i])) =>
                      LET W == upgrade_spec(Ua, pkg_specs[i], {})
                      IN  /\ W.raised = None
                          /\ EffectsOf(RepoModuleDict_upgrade(World, pkg_specs, {}))
                               = EffectsOf(RepoModuleDict_upgrade(World, rest, {}))


\* the identifiers handed to base.upgrade by an operation
UpgradedBy(W) == { e.arg : e \in { x \in Range(W.calls) : x.ev = "upgrade" } }

\* C12: upgrade of a resolved pkg_spec without a profile calls base.upgrade
\* for the packages of every profile of the persisted profile set and for
\* nothing else; with a profile that is not in the persisted set it logs
\* PROFILE_NOT_INSTALLED, calls no delegate and registers nothing.
CE_C12_UpgradeInstalledProfiles ==
    \A pkg_spec \in InstallSpecs :
        LET r == ModuleSubject_find_module_version(conf, pkg_spec)
            c == conf[r.nsvap.name]
            installed == IF c.present THEN c.profiles ELSE {}
            W == upgrade_spec(World, pkg_spec, {})
        IN  r.mv # NoneMV =>
              /\ pkg_spec.profile = None =>
                   UpgradedBy(W) =
                       UNION { profile_nevra(r.mv, p) :
                                   p \in installed \cap profiles(r.mv) }
              /\ (pkg_spec.profile # None /\ pkg_spec.profile \notin installed) =>
                   /\ Ev("log", "PROFILE_NOT_INSTALLED") \in Range(W.calls)
                   /\ EffectsOf(W) = <<>>
                   /\ W.repo_modules = repo_modules
                   /\ W.raised = None


---------------------------------------------------------------------------
(* enable and disable *)

\* the world an operation left, as the next operation finds it
Then(W) == [W EXCEPT !.calls = <<>>]

\* the operation asked for a confirmation or announced a different stream
Asked(W) ==
    \E e \in Range(W.calls) :
        e.ev = "userconfirm" \/ e = Ev("log", "DIFFERENT_STREAM_INFO")

\* assumeyes, assumeno and the answer of userconfirm(), which answers only
\* when it is asked: with neither assumeyes nor assumeno
EnableFlags ==
    { f \in BOOLEAN \X BOOLEAN \X BOOLEAN : (f[1] \/ f[2]) => ~f[3] }

\* C13: enabling the same stream a second time, by the same pkg_spec or on
\* the RepoModule itself, leaves the configuration and its file as the first
\* call left them and asks for no confirmation, whatever assumeyes and
\* assumeno are in either call.
Thm_C13_EnableIdempotent ==
    \A f1, f2 \in EnableFlags :
        LET ay1 == f1[1]  an1 == f1[2]  c1 == f1[3]
            ay2 == f2[1]  an2 == f2[2]  c2 == f2[3]
        IN
        /\ \A pkg_spec \in EnableSpecs :
               LET W1 == RepoModuleDict_enable(World, pkg_spec, ay1, an1, c1)
                   W2 == RepoModuleDict_enable(Then(W1), pkg_spec, ay2, an2, c2)
               IN  /\ W1.raised = None /\ W2.raised = None
                   /\ W2.conf = W1.conf
                   /\ W2.disk = W1.disk
                   /\ ~Asked(W2)
        /\ \A m \in ModuleNames : \A stream \in Streams(m) :
               LET W1 == RepoModule_enable(World, m, stream, ay1, an1, c1)
                   W2 == RepoModule_enable(Then(W1), m, stream, ay2, an2, c2)
               IN  /\ W2.conf = W1.conf
                   /\ W2.disk = W1.disk
                   /\ ~Asked(W2)

\* C13 witness: foo was moved from stream 1.0 to 2.0 by an enable, and
\* enabling 2.0 once more, without assumeyes, writes the same file and does
\* not ask.
Witness_C13 ==
    /\ conf["foo"].present /\ conf["foo"].enabled /\ conf["foo"].stream = "2.0"
    /\ conf["foo"].profiles # {}
    /\ LET W == RepoModuleDict_enable(World, PkgSpec("foo", "2.0", NoVersion, None),
                                      FALSE, FALSE, TRUE)
       IN  /\ WritesOf(W) = <<"foo">>
           /\ W.disk = disk
           /\ ~Asked(W)


\* the module a disable of the pkg_spec acts on: the resolved one, else the
\* one the whole pkg_spec names; None if there is neither
DisabledBy(c, pkg_spec) ==
    LET r == ModuleSubject_find_module_version(c, pkg_spec)
    IN  IF r.mv # NoneMV THEN r.mv.name
        ELSE IF pkg_spec.stream = None /\ pkg_spec.profile = None
                /\ pkg_spec.name \in ModuleNames
             THEN pkg_spec.name
        ELSE None

\* C14: disable, through a resolvable pkg_spec or through the module name,
\* writes the module's configuration with enabled false and every other
\* field (stream, locked, version, profiles) as it was, and touches no other
\* module; enabling the recorded stream afterwards gives back the
\* configuration an enabled module had before the disable.
Thm_C14_DisableFrame ==
    \A pkg_spec \in EnableSpecs :
        LET m  == DisabledBy(conf, pkg_spec)
            W  == RepoModuleDict_disable(World, pkg_spec)
            c0 == IF m # None /\ conf[m].present THEN conf[m] ELSE NewModuleConf
        IN  /\ W.raised = None
            /\ m = None => (W.conf = conf /\ W.disk = disk)
            /\ m # None =>
                 /\ W.conf = [conf EXCEPT ![m] = [c0 EXCEPT !.enabled = FALSE]]
                 /\ W.disk = [disk EXCEPT ![m] = W.conf[m]]
                 /\ (conf[m].present /\ conf[m].enabled
                        /\ conf[m].stream \in Streams(m)) =>
                      \A f \in EnableFlags :
                          LET W2 == RepoModule_enable(Then(W), m, conf[m].stream,
                                                      f[1], f[2], f[3])
                          IN  /\ W2.conf = conf
                              /\ W2.disk[m] = conf[m]
                              /\ ~Asked(W2)

\* C14 witness: foo, with a stream and installed profiles on record, was
\* disabled through a pkg_spec that resolved; now "foo" resolves no longer
\* and a further disable reaches it by its name.
Witness_C14 ==
    LET spec == PkgSpec("foo", None, NoVersion, None) IN
    /\ conf["foo"].present /\ ~conf["foo"].enabled
    /\ conf["foo"].stream = "1.0" /\ conf["foo"].profiles # {}
    /\ ModuleSubject_find_module_version(conf, spec).mv = NoneMV
    /\ WritesOf(RepoModuleDict_disable(World, spec)) = <<"foo">>


\* C15: an enable that is not declined (no other stream on record, or
\* assumeyes, or the confirmation given) leaves the module, with a
\* configuration created if there was none, enabled on the requested stream
\* and written to its file; every enable, declined or not, leaves locked,
\* version and profiles of the module and every other module as they were.
Thm_C15_EnableFrame ==
    \A pkg_spec \in EnableSpecs, f \in EnableFlags :
        LET r  == ModuleSubject_find_module_version(conf, pkg_spec)
            m  == r.mv.name
            W  == RepoModuleDict_enable(World, pkg_spec, f[1], f[2], f[3])
            c0 == IF conf[m].present THEN conf[m] ELSE NewModuleConf
            accepted == \/ c0.stream = None \/ c0.stream = r.mv.stream
                        \/ f[1]
                        \/ ~f[2] /\ f[3]
        IN  IF r.mv = NoneMV THEN W.conf = conf /\ W.disk = disk
            ELSE /\ W.raised = None
                 /\ accepted =>
                      /\ W.conf[m].present /\ W.conf[m].enabled
                      /\ W.conf[m].stream = r.mv.stream
                      /\ W.disk[m] = W.conf[m]
                 /\ W.conf[m].locked = c0.locked
                 /\ W.conf[m].version = c0.version
                 /\ W.conf[m].profiles = c0.profiles
                 /\ \A n \in ModuleNames \ {m} :
                        W.conf[n] = conf[n] /\ W.disk[n] = disk[n]

\* C15 witness: httpd, which had no configuration, got one by an enable of
\* its default stream, and foo, with a version and profiles on record, is
\* asked onto another stream with assumeyes.
Witness_C15 ==
    /\ conf["httpd"] = [NewModuleConf EXCEPT !.stream = "2.4", !.enabled = TRUE]
    /\ disk["httpd"] = conf["httpd"]
    /\ conf["foo"].present /\ conf["foo"].stream = "1.0"
    /\ conf["foo"].version = 3 /\ conf["foo"].profiles = {"web"}
    /\ LET W == RepoModuleDict_enable(World, PkgSpec("foo", "2.0", NoVersion, None),
                                      TRUE, FALSE, FALSE)
       IN  W.conf["foo"] = [conf["foo"] EXCEPT !.stream = "2.0"]


---------------------------------------------------------------------------
(* The package set of a profile *)

\* the epoch of an artifact, as its digits
Epoch(a) == SubSeq(a, 3, Len(a) - 2)

\* name-evr of an artifact with the epoch left out only when it is 0
NameEvr(a) ==
    IF Epoch(a) = <<"0">> THEN a[1] \o "-" \o a[Len(a)] ELSE concat(a)

\* the identifiers handed to base.install by an operation
InstalledBy(W) == { e.arg : e \in { x \in Range(W.calls) : x.ev = "install" } }

\* C16: install of a profile the resolved version has calls base.install
\* for exactly the name-evr of the artifacts whose name the profile lists,
\* the epoch left out when it is 0 and kept otherwise.
CE_C16_ProfilePackages ==
    \A pkg_spec \in InstallSpecs :
        LET r == ModuleSubject_find_module_version(conf, pkg_spec)
            W == install_spec(World, pkg_spec, FALSE, {})
        IN  (r.mv # NoneMV /\ r.nsvap.profile \in profiles(r.mv)) =>
                InstalledBy(W) =
                    { NameEvr(a) : a \in { x \in artifacts(r.mv) :
                                             x[1] \in rpms(r.mv, r.nsvap.profile) } }


---------------------------------------------------------------------------
(* Locked modules and the candidates of a pkg_spec *)

\* C17: for a module locked with a version that the stream of the lookup
\* does not hold, find_module_version returns None, whatever version is
\* asked for, and a pkg_spec never resolves to another version of a locked
\* module than the locked one.
Thm_C17_LockedVersionMissing ==
    /\ (found.op = "find_module_version" /\ found.name \in ModuleNames
           /\ Locked(conf[found.name])
           /\ MV(found.name, SelectedStream(found.name, found.stream),
                 conf[found.name].version) \notin Versions)
       => found.mv = NoneMV
    /\ (found.op = "find_by_identifier" /\ found.mv # NoneMV
           /\ Locked(conf[found.mv.name]))
       => found.mv.version = conf[found.mv.name].version

\* C17 witness: the module is locked with a version its stream lacks, the
\* lookup names a version the stream holds, and the result is None.
Witness_C17 ==
    /\ found.op = "find_module_version"
    /\ found.name \in ModuleNames
    /\ Locked(conf[found.name])
    /\ found.stream \in Streams(found.name)
    /\ MV(found.name, found.stream, conf[found.name].version) \notin Versions
    /\ MV(found.name, found.stream, found.version) \in Versions
    /\ found.version # 0
    /\ found.mv = NoneMV


\* candidates a parse may give, resolving ones and others, in any order
CandLists ==
    SeqsUpTo({ NSVAP("foo", None, NoVersion, None),
               NSVAP("foo", "2.0", NoVersion, None),
               NSVAP("httpd", None, NoVersion, "minimal"),
               NSVAP("nope", None, NoVersion, None) }, MaxCands)

\* what the loop over the candidates must give: the first candidate that
\* find_module_version resolves, and nothing looked up after it
IsFirstResolving(r, c, cands) ==
    LET Lookup(i) == find_module_version(c, cands[i].name, cands[i].stream,
                                         cands[i].version)
        hits == { i \in 1..Len(cands) : Lookup(i) # NoneMV }
    IN  IF hits = {}
        THEN r.mv = NoneMV /\ r.nsvap = NoneNSVAP /\ r.tried = Len(cands)
        ELSE LET k == CHOOSE i \in hits : \A j \in hits : i <= j
             IN  r.mv = Lookup(k) /\ r.nsvap = cands[k] /\ r.tried = k

\* C18: ModuleSubject.find_module_version returns the module version and
\* the NSVAP of the first candidate, in the order of the parse, that
\* find_module_version resolves, looks up no candidate after it, and returns
\* (None, None) when no candidate resolves or there is no candidate.
Thm_C18_FirstCandidate ==
    /\ \A cands \in CandLists :
           IsFirstResolving(first_resolving(conf, cands, 1), conf, cands)
    /\ found.op = "find_by_identifier" =>
           LET spec  == PkgSpec(found.name, found.stream, found.version,
                                found.profile)
               cands == get_nsvap_possibilities(spec)
               r     == ModuleSubject_find_module_version(conf, spec)
           IN  /\ found.mv = r.mv /\ found.nsvap = r.nsvap
               /\ IsFirstResolving(r, conf, cands)

\* C18 witness: the first candidate of the pkg_spec, the whole string as a
\* name, did not resolve and the second one did, and two candidates that
\* both resolve give the first.
Witness_C18 ==
    /\ found.op = "find_by_identifier"
    /\ found.stream # None
    /\ found.mv # NoneMV
    /\ found.nsvap = NSVAP(found.name, found.stream, NoVersion, found.profile)
    /\ LET a == NSVAP("foo", "2.0", NoVersion, None)
           b == NSVAP("httpd", None, NoVersion, "minimal")
       IN  /\ first_resolving(conf, <<a, b>>, 1) =
                  [mv |-> MV("foo", "2.0", 1), nsvap |-> a, tried |-> 1]
           /\ first_resolving(conf, <<b, a>>, 1).nsvap = b


---------------------------------------------------------------------------
(* upgrade_all *)

\* every identifier a version of the module can hand to the delegate
IdsOf(m) ==
    UNION { profile_nevra(mv, p) :
                mv \in { v \in Versions : v.name = m }, p \in {"minimal", "web"} }

\* the modules an operation registered with the transaction callback
RegisteredBy(W) ==
    LET reg == SelectSeq(W.calls, LAMBDA e : e.ev = "register")
    IN  [i \in 1..Len(reg) |-> reg[i].arg]

\* C19: upgrade_all does what upgrade does for the names of the modules
\* that have a configuration with enabled set, in ascending order and
\* without profiles; a module without configuration or not enabled gets no
\* base.upgrade call, no upgrade version and no registration.
Thm_C19_UpgradeAllEnabled ==
    \A bad \in BadSets :
        LET W  == RepoModuleDict_upgrade_all(World, bad)
            en == { m \in ModuleNames : conf[m].present /\ conf[m].enabled }
            names == IF en = {"foo", "httpd"} THEN <<"foo", "httpd">>
                     ELSE IF en = {"foo"} THEN <<"foo">>
                     ELSE IF en = {"httpd"} THEN <<"httpd">>
                     ELSE <<>>
            specs == [i \in 1..Len(names) |->
                          PkgSpec(names[i], None, NoVersion, None)]
        IN  /\ W = RepoModuleDict_upgrade(World, specs, bad)
            /\ \A i, j \in 1..Len(RegisteredBy(W)) :
                   (i < j /\ RegisteredBy(W)[i] = "httpd") =>
                       RegisteredBy(W)[j] # "foo"
            /\ \A m \in ModuleNames \ en :
                   /\ m \notin Range(RegisteredBy(W))
                   /\ UpgradedBy(W) \cap IdsOf(m) = {}
                   /\ W.installed_repo_module_version[m]
                          = installed_repo_module_version[m]
            /\ W.repo_modules = repo_modules \o RegisteredBy(W)

\* C19 witness: foo was disabled, with its stream and profiles still on
\* record, httpd is enabled, and upgrade_all upgrades and registers httpd
\* alone.
Witness_C19 ==
    /\ conf["foo"].present /\ ~conf["foo"].enabled
    /\ conf["foo"].stream = "1.0" /\ conf["foo"].profiles # {}
    /\ conf["httpd"].present /\ conf["httpd"].enabled
    /\ LET W == RepoModuleDict_upgrade_all(World, {})
       IN  /\ RegisteredBy(W) = <<"httpd">>
           /\ UpgradedBy(W) # {}
           /\ UpgradedBy(W) \subseteq IdsOf("httpd")


---------------------------------------------------------------------------
(* The option pluginpath alone *)

\* the lists given to pluginpath
ListValues == SeqsUpTo({"a", "b", "c"}, MaxListLen)

InitOption ==
    /\ conf = [m \in ModuleNames |-> NoConf]
    /\ disk = conf
    /\ installed_profiles = [m \in ModuleNames |-> <<>>]
    /\ installed_repo_module_version = [m \in ModuleNames |-> NoneMV]
    /\ repo_modules = <<>>
    /\ saved = FALSE
    /\ found = NoFound
    /\ checkpoints = 0
    /\ commits = 0
    /\ pluginpath = DefaultOption
    /\ var = NoVar

\* self.conf._set_value("pluginpath", value, priority)
SetValue ==
    \E value \in ListValues, priority \in Priorities :
        /\ pluginpath' = set_value(pluginpath, value, priority)
        /\ var' = IF pluginpath' = pluginpath THEN var ELSE NoVar
        /\ UNCHANGED <<conf, disk, installed_profiles,
                       installed_repo_module_version, repo_modules, saved,
                       found, checkpoints, commits>>

\* self.conf.pluginpath = value
Assign ==
    \E value \in ListValues :
        /\ pluginpath' = setattr(pluginpath, value)
        /\ var' = IF pluginpath' = pluginpath THEN var ELSE NoVar
        /\ UNCHANGED <<conf, disk, installed_profiles,
                       installed_repo_module_version, repo_modules, saved,
                       found, checkpoints, commits>>

\* var = self.conf.pluginpath
Read ==
    /\ var' = read(pluginpath)
    /\ UNCHANGED <<conf, disk, installed_profiles,
                   installed_repo_module_version, repo_modules, saved,
                   found, checkpoints, commits, pluginpath>>

\* the in-place changes of the tests, on the list that was read; one that
\* raises (pop of an empty list, remove of a missing item, an index out of
\* range) changes nothing
Mutations ==
    LET l == var.value IN
    { [op |-> "iadd", value |-> list_iadd(l, x)] : x \in ListValues } \cup
    { [op |-> "imul", value |-> list_imul(l, n)] : n \in 0..3 } \cup
    { [op |-> "setitem", value |-> list_setitem(l, i, x)] :
          i \in 0..(Len(l) - 1), x \in Range(Items) } \cup
    { [op |-> "append", value |-> list_append(l, x)] : x \in Range(Items) } \cup
    { [op |-> "clear", value |-> list_clear(l)] } \cup
    { [op |-> "extend", value |-> list_extend(l, x)] : x \in ListValues } \cup
    { [op |-> "insert", value |-> list_insert(l, i, x)] :
          i \in 0..Len(l), x \in Range(Items) } \cup
    { [op |-> "pop", value |-> list_pop(l)] : i \in 1..(IF l = <<>> THEN 0 ELSE 1) } \cup
    { [op |-> "remove", value |-> list_remove(l, x)] : x \in Range(l) } \cup
    { [op |-> "reverse", value |-> list_reverse(l)] } \cup
    { [op |-> "sort", value |-> list_sort(l)] }

\* var += ..., var.append(...), ...: lists stay within MaxListLen items
Mutate ==
    \E m \in Mutations :
        /\ var.bound
        /\ Len(m.value) <= MaxListLen
        /\ var' = [bound |-> TRUE, value |-> m.value, op |-> m.op]
        /\ pluginpath' = store(pluginpath, m.value)
        /\ UNCHANGED <<conf, disk, installed_profiles,
                       installed_repo_module_version, repo_modules, saved,
                       found, checkpoints, commits>>

NextOption == SetValue \/ Assign \/ Read \/ Mutate

SpecOption == InitOption /\ [][NextOption]_vars

\* C20: whatever was set before, a value set with a priority below the
\* stored one is dropped, the empty list too; one set with the same or a
\* higher priority is stored; and an assignment to the attribute replaces a
\* value stored at PRIO_PLUGINDEFAULT, by the empty list too.
Thm_C20_OptionPriority ==
    /\ pluginpath.priority \in Priorities
    /\ \A value \in ListValues, priority \in Priorities :
           LET o == set_value(pluginpath, value, priority)
           IN  /\ priority < pluginpath.priority => o = pluginpath
               /\ priority >= pluginpath.priority =>
                      o = [value |-> value, priority |-> priority]
    /\ pluginpath.priority = PRIO_PLUGINDEFAULT =>
           \A value \in ListValues : setattr(pluginpath, value).value = value

\* C20 witness: ["b"] was stored at PRIO_PLUGINDEFAULT; the empty list at
\* PRIO_DEFAULT leaves it, ["c"] at the same priority and the empty list by
\* assignment replace it.
Witness_C20 ==
    /\ pluginpath = [value |-> <<"b">>, priority |-> PRIO_PLUGINDEFAULT]
    /\ set_value(pluginpath, <<>>, PRIO_DEFAULT).value = <<"b">>
    /\ set_value(pluginpath, <<"c">>, PRIO_PLUGINDEFAULT).value = <<"c">>
    /\ setattr(pluginpath, <<>>).value = <<>>


\* C21: the list a read of conf.pluginpath returned and the stored value of
\* the option are the same list: after every in-place change of the list
\* (+=, *=, item assignment, append, clear, extend, insert, pop, remove,
\* reverse, sort) a fresh read of conf.pluginpath gives the changed list.
Thm_C21_LiveList ==
    var.bound => /\ read(pluginpath).value = var.value
                 /\ pluginpath.value = var.value

\* C21 witness: ["a", "b"] was read and reversed in place, and the option
\* holds ["b", "a"].
Witness_C21 ==
    /\ var.bound /\ var.op = "reverse"
    /\ var.value = <<"b", "a">>
    /\ pluginpath.value = <<"b", "a">>


---------------------------------------------------------------------------
(* The persisted profiles *)

\* C22: the profiles of a module, in its configuration and in its file,
\* change in no step but the commit of progress, and there only by growing:
\* enable, disable, install, upgrade and upgrade_all, with the lookups they
\* make, leave them as they are, and the commit removes none.
Thm_C22_ProfilesGrowAtCommit ==
    [][\A m \in ModuleNames :
           /\ conf[m].profiles \subseteq conf'[m].profiles
           /\ disk[m].profiles \subseteq disk'[m].profiles
           /\ (conf'[m].profiles # conf[m].profiles
                  \/ disk'[m].profiles # disk[m].profiles)
              => (commits' = commits + 1 /\ ~saved /\ saved'
                     /\ checkpoints' = checkpoints + 1)]_vars

\* C22 witness: foo had the profile web on record, minimal was installed,
\* and the commit wrote both.
Witness_C22 ==
    /\ commits = 1
    /\ ~disk["foo"].locked
    /\ disk["foo"].profiles = {"minimal", "web"}
    /\ installed_repo_module_version["foo"] = MV("foo", "2.0", 1)


---------------------------------------------------------------------------
(* What the commit writes *)

\* C23: right after the commit, the file of every module the commit wrote
\* names the stream of the module version whose version number it records:
\* stream and version together are the version that was installed or
\* upgraded.
CE_C23_StreamOfCommittedVersion ==
    \A action \in {TRANS_POST, PKG_VERIFY} :
        LET W == progress(World, action)
        IN  \A m \in Range(WritesOf(W)) :
                /\ W.disk[m].version = installed_repo_module_version[m].version
                /\ W.disk[m].stream = installed_repo_module_version[m].stream


\* the install of profile p of module m was tried and base.install raised:
\* the profile is on the module's list and the module was not registered
InstallFailed(m, p) ==
    /\ Idle
    /\ m \notin Range(repo_modules)
    /\ p \in Range(installed_profiles[m])

\* C24: a profile whose install failed in base.install, and that was not
\* persisted before, is not among the profiles the commit writes, also when
\* a later install or upgrade of the same module, of another profile, goes
\* through and registers the module.
CE_C24_FailedProfileNotPersisted ==
    \A m \in ModuleNames, p \in {"minimal", "web"} :
        (InstallFailed(m, p) /\ p \notin conf[m].profiles) =>
            \A pkg_spec \in InstallSpecs :
                LET Wi == install_spec(World, pkg_spec, FALSE, {})
                    Wu == upgrade_spec(World, pkg_spec, {})
                IN  /\ (Wi.raised = None /\ RegisteredBy(Wi) = <<m>>
                           /\ pkg_spec.profile # p) =>
                          p \notin progress(Then(Wi), TRANS_POST).disk[m].profiles
                    /\ (Wu.raised = None /\ RegisteredBy(Wu) = <<m>>) =>
                          p \notin progress(Then(Wu), TRANS_POST).disk[m].profiles


\* C25: upgrade, and upgrade_all, of a module that resolves and has no
\* configuration or no profile on record calls base.upgrade for nothing and
\* does not register the module, so that the commit of the next checkpoint
\* leaves the module's file as it is and raises nothing for it.
CE_C25_UpgradeWithoutProfiles ==
    /\ \A pkg_spec \in InstallSpecs \cup EnableSpecs :
           LET r == ModuleSubject_find_module_version(conf, pkg_spec)
               m == r.nsvap.name
               W == upgrade_spec(World, pkg_spec, {})
               P == progress(Then(W), TRANS_POST)
           IN  (Idle /\ r.mv # NoneMV /\ m \notin Range(repo_modules)
                   /\ (~conf[m].present \/ conf[m].profiles = {})) =>
                     /\ UpgradedBy(W) = {}
                     /\ RegisteredBy(W) = <<>>
                     /\ P.disk[m] = disk[m]
                     /\ P.raised = None => P.conf[m] = conf[m]
                     /\ (\A n \in Range(repo_modules) : conf[n].present) =>
                            P.raised = None
    /\ LET W == RepoModuleDict_upgrade_all(World, {})
       IN  \A m \in ModuleNames :
               (Idle /\ (~conf[m].present \/ conf[m].profiles = {})) =>
                   m \notin Range(RegisteredBy(W))

====
